---- MODULE Spec2Model ----
(***************************************************************************)
(* Model of Container.synchronize_events (src/src/container.py) and of the *)
(* collaborators it calls: login, events_differ, get_event_differences,    *)
(* add_hours_direct and download_hours_xls.  Strings are sequences of      *)
(* tokens; the token P stands for the literal text "[event_id:" and R for  *)
(* the closing "]".                                                        *)
(***************************************************************************)
EXTENDS Integers, Sequences, FiniteSets, TLC

VARIABLES db_events, eb_events, dry_run, client, logged_in, pc, i, k,
          events_to_add, stats, final_eb_events, err, log, history,
          events_to_update, orphaned_events, processed_eb_events,
          max_retries, retry_delay, retry_count, last_error

vars == <<db_events, eb_events, dry_run, client, logged_in, pc, i, k,
          events_to_add, stats, final_eb_events, err, log, history,
          events_to_update, orphaned_events, processed_eb_events,
          max_retries, retry_delay, retry_count, last_error>>

\* the arguments and locals of get_db_connection
connection_vars == <<max_retries, retry_delay, retry_count, last_error>>

\* the locals of compare_events besides events_to_add
compare_vars == <<events_to_update, orphaned_events, processed_eb_events>>

\* ------------------------------------------------------------------ bounds
MaxDb == 2
MaxRemote == 2
MaxFetched == 1

\* ------------------------------------------------------- strings and inputs
P == "[event_id:"
R == "]"

IdSet == { <<>>, <<"a">>, <<"b">> }

DescSet == { <<"x">>, <<P, "a", R>>, <<"x", P, "b", R>>, <<P, "a", R, P, "b", R>> }

Fields == {"project", "activity", "hours"}

\* the dictionaries get_event_differences hands back, by their keys
Differences == { {"hours"}, {"hours", "project"}, {"project", "activity"} }

\* f"[event_id:{event_id}]"
Marker(event_id) == <<P>> \o event_id \o <<R>>

\* Python's  t in s  on strings
Contains(s, t) ==
  \E n \in 0..(Len(s) - Len(t)) : SubSeq(s, n + 1, n + Len(t)) = t

\* a database event: get("event_id") is None when has_id is FALSE
DbEvents ==
  { [has_id |-> FALSE, event_id |-> <<>>] } \cup
  { [has_id |-> TRUE, event_id |-> s] : s \in IdSet }

\* a remote event; "None" stands for a field that is missing or None
Remote(d, inv, p, a) ==
  [description |-> d, is_invoiced |-> inv, project |-> p, activity |-> a]

\* the remote events of the inputs: without a marker, with one marker
\* (invoiced or not, with and without the base fields) and with two markers
RemoteEvents ==
  { Remote(<<"x">>, FALSE, "Project X", "Testing"),
    Remote(<<P, "a", R>>, TRUE, "Project X", "Testing"),
    Remote(<<P, "a", R>>, FALSE, "Project X", "Testing"),
    Remote(<<P, "a", R>>, FALSE, "None", "Testing"),
    Remote(<<P, "a", R>>, FALSE, "Project X", "None"),
    Remote(<<P, "a", R, P, "b", R>>, FALSE, "Project X", "Testing") }

SeqsUpTo(S, n) == UNION { [1..m -> S] : m \in 0..n }

\* what download_hours_xls can hand back: only descriptions are read
FetchedEvents ==
  { Remote(d, FALSE, "Project X", "Testing") : d \in DescSet }

\* ------------------------------------------------------------------- state
ZeroStats ==
  [ would_add |-> 0, added |-> 0, would_update |-> 0, orphaned_events |-> 0,
    conflict_events |-> 0, base_data_conflicts |-> 0, verified_adds |-> 0 ]

Init ==
  /\ db_events \in SeqsUpTo(DbEvents, MaxDb)
  /\ eb_events \in SeqsUpTo(RemoteEvents, MaxRemote)
  /\ dry_run \in BOOLEAN
  /\ client = "None"
  /\ logged_in = FALSE
  /\ pc = "idle"
  /\ i = 0
  /\ k = 0
  /\ events_to_add = <<>>
  /\ stats = ZeroStats
  /\ final_eb_events = <<>>
  /\ err = "none"
  /\ log = <<>>
  /\ history = <<>>
  /\ events_to_update = <<>>
  /\ orphaned_events = <<>>
  /\ processed_eb_events = {}
  /\ max_retries = 0
  /\ retry_delay = 0
  /\ retry_count = 0
  /\ last_error = 0

\* one collaborator call, as the mock would record it
Call(op, d, e, res, diff) ==
  [op |-> op, db |-> d, eb |-> e, res |-> res, diff |-> diff]

Count(n, Test(_)) == Cardinality({ m \in 1..n : Test(m) })

\* ------------------------------------------------- Container helper methods
\* variant: only a missing event_id is skipped (event_id is None)
MissingEventId_NoneOnly(db_event) == ~db_event.has_id

\* if not event_id  (None and "" are both falsy)
MissingEventId(db_event) == ~db_event.has_id \/ db_event.event_id = <<>>

\* next((e for e in initial_eb_events if marker in e.get("description", "")), None)
\* as an index into the remote list, 0 for None
\* variant: the first remote event that carries any marker is the match
FirstMatch_AnyMarker(event_id, remote) ==
  IF \E j \in 1..Len(remote) : Contains(remote[j].description, <<P>>)
  THEN CHOOSE j \in 1..Len(remote) :
         /\ Contains(remote[j].description, <<P>>)
         /\ \A h \in 1..(j - 1) : ~Contains(remote[h].description, <<P>>)
  ELSE 0

FirstMatch(event_id, remote) ==
  IF \E j \in 1..Len(remote) : Contains(remote[j].description, Marker(event_id))
  THEN CHOOSE j \in 1..Len(remote) :
         /\ Contains(remote[j].description, Marker(event_id))
         /\ \A h \in 1..(j - 1) : ~Contains(remote[h].description, Marker(event_id))
  ELSE 0

\* variant: a differing base field counts even when the remote value is None
check_base_data_conflicts_NoNoneCheck(differences, eb_event) ==
  (IF "project" \in differences THEN 1 ELSE 0) +
  (IF "activity" \in differences THEN 1 ELSE 0)

check_base_data_conflicts(differences, eb_event) ==
  (IF "project" \in differences /\ eb_event.project # "None" THEN 1 ELSE 0) +
  (IF "activity" \in differences /\ eb_event.activity # "None" THEN 1 ELSE 0)

\* variant: the pair is counted as an update before the differences are read
DifferingBefore_CountsUpdate(st, eb_event) ==
  IF eb_event.is_invoiced
  THEN [st EXCEPT !.conflict_events = @ + 1]
  ELSE [st EXCEPT !.would_update = @ + 1]

\* counters after _handle_event_update found a difference, up to the call of
\* get_event_differences
DifferingBefore(st, eb_event) ==
  IF eb_event.is_invoiced
  THEN [st EXCEPT !.conflict_events = @ + 1]
  ELSE st

\* variant: the update branch is taken without looking at is_invoiced
DifferingAfter_NoInvoicedCheck(st, eb_event, differences) ==
  [st EXCEPT !.would_update = @ + 1,
             !.base_data_conflicts =
                 @ + check_base_data_conflicts(differences, eb_event)]

\* variant: the invoiced branch counts the base data conflicts as well
DifferingAfter_InvoicedBase(st, eb_event, differences) ==
  IF eb_event.is_invoiced
  THEN [st EXCEPT !.base_data_conflicts =
                      @ + check_base_data_conflicts(differences, eb_event)]
  ELSE [st EXCEPT !.would_update = @ + 1,
                  !.base_data_conflicts =
                      @ + check_base_data_conflicts(differences, eb_event)]

\* variant: in apply mode the pair is updated and not counted
DifferingAfter_UpdateApplied(st, eb_event, differences) ==
  IF eb_event.is_invoiced \/ ~dry_run
  THEN st
  ELSE [st EXCEPT !.would_update = @ + 1,
                  !.base_data_conflicts =
                      @ + check_base_data_conflicts(differences, eb_event)]

\* counters after get_event_differences returned  differences
DifferingAfter(st, eb_event, differences) ==
  IF eb_event.is_invoiced
  THEN st
  ELSE [st EXCEPT !.would_update = @ + 1,
                  !.base_data_conflicts =
                      @ + check_base_data_conflicts(differences, eb_event)]

\* variant: a remote event is an orphan when no database event's marker is in it
find_orphaned_events_Unclaimed(remote) ==
  Count(Len(remote), LAMBDA j :
          ~\E n \in 1..Len(db_events) :
              Contains(remote[j].description, Marker(db_events[n].event_id)))

find_orphaned_events(remote) ==
  Count(Len(remote), LAMBDA j : ~Contains(remote[j].description, <<P>>))

\* variant: counts the fetched events that carry a marker, not the events to add
VerifiedAdds_CountRemote(to_add, fetched) ==
  Count(Len(fetched), LAMBDA j :
          \E n \in 1..Len(to_add) :
            Contains(fetched[j].description, Marker(db_events[to_add[n]].event_id)))

\* the verification loop over events_to_add
VerifiedAdds(to_add, fetched) ==
  Count(Len(to_add), LAMBDA n :
          \E j \in 1..Len(fetched) :
            Contains(fetched[j].description, Marker(db_events[to_add[n]].event_id)))

\* variant: the apply phase is entered in dry-run mode too
AfterClassify_IgnoreDryRun(idx, to_add) ==
  IF idx <= Len(db_events) THEN "classify"
  ELSE IF to_add # <<>> THEN "apply"
  ELSE "orphans"

\* variant: a candidate is applied as soon as it is found
AfterClassify_ApplyEarly(idx, to_add) ==
  IF ~dry_run /\ to_add # <<>> THEN "apply"
  ELSE IF idx <= Len(db_events) THEN "classify"
  ELSE "orphans"

\* where control goes once the loop over db_events is at index idx
AfterClassify(idx, to_add) ==
  IF idx <= Len(db_events) THEN "classify"
  ELSE IF ~dry_run /\ to_add # <<>> THEN "apply"
  ELSE "orphans"

\* variant: the loop is left at the first event that could not be added
AfterApply_StopOnFalse(r, n) ==
  IF n < Len(events_to_add) /\ r = "true" THEN "apply" ELSE "refetch"

\* where control goes once add_hours_direct returned r (not raised) for the
\* n-th of the events to add: the loop goes on whatever r is
AfterApply(r, n) ==
  IF n < Len(events_to_add) THEN "apply" ELSE "refetch"

\* variant: a login error is not caught
Raise_LoginPropagates(e) == IF e = "login" THEN "propagated" ELSE "except"

\* variant: an add_hours_direct call that raised is made again
Raise_ApplyRetries(e) == IF e = "add_hours_direct" THEN "apply" ELSE "except"

\* variant: a failed login is ignored and the run goes on
Raise_LoginContinues(e) == IF e = "login" THEN "classify" ELSE "except"

\* try: ... except Exception: every error raised in the body is caught
Raise(e) == "except"

\* variant: the handler leaves the counters of the apply phase as they are
ResetStats_KeepsApplied(st) ==
  [st EXCEPT !.would_add = 0, !.would_update = 0,
             !.base_data_conflicts = 0, !.conflict_events = 0]

\* stats.update({...}) of the handler
ResetStats(st) ==
  [st EXCEPT !.would_add = 0, !.added = 0, !.would_update = 0,
             !.base_data_conflicts = 0, !.conflict_events = 0,
             !.verified_adds = 0]

\* events_differ and get_event_differences are functions of the pair they are
\* given: a pair that was compared in an earlier call of synchronize_events
\* gets the same answer again
SameAnswer(call) ==
  \A h \in 1..Len(history) : \A c \in 1..Len(history[h].log) :
     LET old == history[h].log[c]
     IN  (old.op = call.op /\ old.db = call.db /\ old.eb = call.eb) => old = call

\* ----------------------------------------------------------------- actions
\* entry of synchronize_events: the statistics record is created
Start ==
  /\ pc = "idle"
  /\ pc' = "get_client"
  /\ stats' = ZeroStats
  /\ UNCHANGED <<history, compare_vars, connection_vars>>
  /\ UNCHANGED <<db_events, eb_events, dry_run, client, logged_in, i, k,
                 events_to_add, final_eb_events, err, log>>

\* client = self.get_eboekhouden_client()
GetClient ==
  /\ pc = "get_client"
  /\ IF client = "None"
     THEN /\ client' = "client"
          /\ \E r \in {"true", "false", "raise"} :
               /\ log' = Append(log, Call("login", 0, 0, r, {}))
               /\ logged_in' = (r = "true")
               /\ IF r = "true"
                  THEN /\ pc' = AfterClassify(1, <<>>)
                       /\ err' = err
                  ELSE /\ pc' = Raise("login")
                       /\ err' = "login"
     ELSE /\ pc' = AfterClassify(1, <<>>)
          /\ UNCHANGED <<client, logged_in, err, log>>
  /\ i' = 1
  /\ UNCHANGED <<history, compare_vars, connection_vars>>
  /\ UNCHANGED <<db_events, eb_events, dry_run, k, events_to_add, stats,
                 final_eb_events>>

\* one iteration of  for db_event in db_events
ClassifyEvent ==
  /\ pc = "classify"
  /\ i <= Len(db_events)
  /\ LET db_event == db_events[i]
         j == FirstMatch(db_event.event_id, eb_events)
     IN  IF MissingEventId(db_event)
         THEN /\ pc' = AfterClassify(i + 1, events_to_add)
              /\ i' = i + 1
              /\ UNCHANGED <<events_to_add, stats, err, log>>
         ELSE IF j = 0
         THEN /\ events_to_add' = Append(events_to_add, i)
              /\ stats' = [stats EXCEPT !.would_add = @ + 1]
              /\ pc' = AfterClassify(i + 1, events_to_add')
              /\ i' = i + 1
              /\ UNCHANGED <<err, log>>
         ELSE \E d \in {"true", "false", "raise"} :
                LET differ == Call("events_differ", i, j, d, {})
                IN  CASE d = "raise" ->
                           /\ SameAnswer(differ)
                           /\ log' = Append(log, differ)
                           /\ pc' = Raise("events_differ")
                           /\ err' = "events_differ"
                           /\ UNCHANGED <<i, events_to_add, stats>>
                      [] d = "false" ->
                           /\ SameAnswer(differ)
                           /\ log' = Append(log, differ)
                           /\ pc' = AfterClassify(i + 1, events_to_add)
                           /\ i' = i + 1
                           /\ UNCHANGED <<events_to_add, stats, err>>
                      [] d = "true" ->
                           \/ /\ SameAnswer(differ)
                              /\ SameAnswer(Call("get_event_differences", i, j, "raise", {}))
                              /\ log' = log \o <<differ,
                                   Call("get_event_differences", i, j, "raise", {})>>
                              /\ stats' = DifferingBefore(stats, eb_events[j])
                              /\ pc' = Raise("get_event_differences")
                              /\ err' = "get_event_differences"
                              /\ UNCHANGED <<i, events_to_add>>
                           \/ \E differences \in Differences :
                              /\ SameAnswer(differ)
                              /\ SameAnswer(Call("get_event_differences", i, j, "ok", differences))
                              /\ log' = log \o <<differ,
                                   Call("get_event_differences", i, j, "ok", differences)>>
                              /\ stats' = DifferingAfter(
                                            DifferingBefore(stats, eb_events[j]),
                                            eb_events[j], differences)
                              /\ pc' = AfterClassify(i + 1, events_to_add)
                              /\ i' = i + 1
                              /\ UNCHANGED <<events_to_add, err>>
  /\ UNCHANGED <<history, compare_vars, connection_vars>>
  /\ UNCHANGED <<db_events, eb_events, dry_run, client, logged_in, k,
                 final_eb_events>>

\* one iteration of  for event in events_to_add: client.add_hours_direct(event)
ApplyEvent ==
  /\ pc = "apply"
  /\ k + 1 <= Len(events_to_add)
  /\ \E r \in {"true", "false", "raise"} :
       /\ log' = Append(log, Call("add_hours_direct", events_to_add[k + 1], 0, r, {}))
       /\ IF r = "raise"
          THEN /\ pc' = Raise("add_hours_direct")
               /\ err' = "add_hours_direct"
               /\ UNCHANGED <<k, stats>>
          ELSE /\ stats' = IF r = "true" THEN [stats EXCEPT !.added = @ + 1]
                           ELSE stats
               /\ k' = k + 1
               /\ pc' = AfterApply(r, k + 1)
               /\ err' = err
  /\ UNCHANGED <<history, compare_vars, connection_vars>>
  /\ UNCHANGED <<db_events, eb_events, dry_run, client, logged_in, i,
                 events_to_add, final_eb_events>>

\* xls_path, final_eb_events = client.download_hours_xls(year) and the
\* verification loop
Refetch ==
  /\ pc = "refetch"
  /\ \/ /\ log' = Append(log, Call("download_hours_xls", 0, 0, "raise", {}))
        /\ pc' = Raise("download_hours_xls")
        /\ err' = "download_hours_xls"
        /\ UNCHANGED <<stats, final_eb_events>>
     \/ \E fetched \in SeqsUpTo(FetchedEvents, MaxFetched) :
        /\ log' = Append(log, Call("download_hours_xls", 0, 0, "ok", {}))
        /\ final_eb_events' = fetched
        /\ stats' = IF fetched # <<>>
                    THEN [stats EXCEPT !.verified_adds =
                                         @ + VerifiedAdds(events_to_add, fetched)]
                    ELSE stats
        /\ pc' = "orphans"
        /\ err' = err
  /\ UNCHANGED <<history, compare_vars, connection_vars>>
  /\ UNCHANGED <<db_events, eb_events, dry_run, client, logged_in, i, k,
                 events_to_add>>

\* stats["orphaned_events"] = self._find_orphaned_events(initial_eb_events)
FindOrphans ==
  /\ pc = "orphans"
  /\ stats' = [stats EXCEPT !.orphaned_events = find_orphaned_events(eb_events)]
  /\ pc' = "done"
  /\ UNCHANGED <<history, compare_vars, connection_vars>>
  /\ UNCHANGED <<db_events, eb_events, dry_run, client, logged_in, i, k,
                 events_to_add, final_eb_events, err, log>>

\* except Exception as e: the reset, then return stats
HandleError ==
  /\ pc = "except"
  /\ stats' = ResetStats(stats)
  /\ pc' = "done"
  /\ UNCHANGED <<history, compare_vars, connection_vars>>
  /\ UNCHANGED <<db_events, eb_events, dry_run, client, logged_in, i, k,
                 events_to_add, final_eb_events, err, log>>

\* return stats, and the caller calls synchronize_events again on the same
\* container with the same two lists
Return ==
  /\ pc = "done"
  /\ history = <<>>
  /\ history' = Append(history, [stats |-> stats, dry_run |-> dry_run,
                                  err |-> err, log |-> log])
  /\ pc' = "idle"
  /\ dry_run' \in BOOLEAN
  /\ log' = <<>>
  /\ err' = "none"
  /\ i' = 0
  /\ k' = 0
  /\ events_to_add' = <<>>
  /\ final_eb_events' = <<>>
  /\ UNCHANGED <<db_events, eb_events, client, logged_in, stats, compare_vars, connection_vars>>

Next ==
  \/ Start
  \/ GetClient
  \/ ClassifyEvent
  \/ ApplyEvent
  \/ Refetch
  \/ FindOrphans
  \/ HandleError

Spec == Init /\ [][Next]_vars

\* two calls of synchronize_events in a row
NextTwice ==
  \/ Next
  \/ Return

\* the lists of the two-call runs: events without an id, with the ids a and b,
\* and remote events without a marker, with one marker and with two
TwiceDbEvents ==
  { e \in DbEvents : ~e.has_id \/ e.event_id # <<>> }

TwiceRemoteEvents ==
  { Remote(<<"x">>, FALSE, "Project X", "Testing"),
    Remote(<<P, "a", R>>, TRUE, "Project X", "Testing"),
    Remote(<<P, "a", R>>, FALSE, "Project X", "Testing"),
    Remote(<<P, "a", R, P, "b", R>>, FALSE, "Project X", "Testing") }

\* the first call is made with the default dry_run=True
InitTwice ==
  /\ Init
  /\ dry_run = TRUE
  /\ \A n \in 1..Len(db_events) : db_events[n] \in TwiceDbEvents
  /\ \A j \in 1..Len(eb_events) : eb_events[j] \in TwiceRemoteEvents

SpecTwice == InitTwice /\ [][NextTwice]_vars

\* ------------------------------------------ the remote side of an apply run
\* event['description'] of a database event: free text, as in the fixtures
DbDescription(event) == <<"x">>

\* the hour record that add_hours_direct(event) saves: the description field
\* is filled with f"{event['description']}\n\nCreated at: {timestamp}"
CreatedRecord(event) ==
  Remote(DbDescription(event) \o <<"Created at">>, FALSE, "Project X", "Testing")

\* the remote list once the add_hours_direct calls of the log were made: a
\* call that returned true saved a record
RemoteAfter ==
  LET saved == SelectSeq(log, LAMBDA c : c.op = "add_hours_direct" /\ c.res = "true")
  IN  eb_events \o [ n \in 1..Len(saved) |-> CreatedRecord(db_events[saved[n].db]) ]

\* client.download_hours_xls(year) against that remote list, and the
\* verification loop
RefetchRemote ==
  /\ pc = "refetch"
  /\ \/ /\ log' = Append(log, Call("download_hours_xls", 0, 0, "raise", {}))
        /\ pc' = Raise("download_hours_xls")
        /\ err' = "download_hours_xls"
        /\ UNCHANGED <<stats, final_eb_events>>
     \/ /\ log' = Append(log, Call("download_hours_xls", 0, 0, "ok", {}))
        /\ final_eb_events' = RemoteAfter
        /\ stats' = IF RemoteAfter # <<>>
                    THEN [stats EXCEPT !.verified_adds =
                                         @ + VerifiedAdds(events_to_add, RemoteAfter)]
                    ELSE stats
        /\ pc' = "orphans"
        /\ err' = err
  /\ UNCHANGED <<db_events, eb_events, dry_run, client, logged_in, i, k,
                 events_to_add, history, compare_vars, connection_vars>>

\* return stats, and the next run: the remote list is downloaded and
\* synchronize_events is called with it and the same database events
ReturnApplied ==
  /\ pc = "done"
  /\ history = <<>>
  /\ history' = Append(history, [stats |-> stats, dry_run |-> dry_run,
                                  err |-> err, log |-> log])
  /\ eb_events' = RemoteAfter
  /\ pc' = "idle"
  /\ log' = <<>>
  /\ err' = "none"
  /\ i' = 0
  /\ k' = 0
  /\ events_to_add' = <<>>
  /\ final_eb_events' = <<>>
  /\ UNCHANGED <<db_events, dry_run, client, logged_in, stats, compare_vars, connection_vars>>

NextApplied ==
  \/ Start
  \/ GetClient
  \/ ClassifyEvent
  \/ ApplyEvent
  \/ RefetchRemote
  \/ FindOrphans
  \/ HandleError
  \/ ReturnApplied

\* both runs are made in apply mode
InitApplied ==
  /\ Init
  /\ dry_run = FALSE
  /\ \A n \in 1..Len(db_events) : db_events[n] \in TwiceDbEvents
  /\ \A j \in 1..Len(eb_events) : eb_events[j] \in TwiceRemoteEvents

SpecApplied == InitApplied /\ [][NextApplied]_vars

\* ------------------------------------------- the container's client methods
\* the number of calls of get_eboekhouden_client, client and cleanup in a run
MaxCalls == 4

MethodOps == {"get_eboekhouden_client", "client", "cleanup"}

MethodCalls == Cardinality({ c \in 1..Len(log) : log[c].op \in MethodOps })

\* EBoekhoudenClient(): the clients are numbered in the order of construction
NewId == Len(SelectSeq(log, LAMBDA c : c.op = "create")) + 1

\* the client in self._client: the one constructed last
HeldId == NewId - 1

\* variant: the closed client stays in self._client
CloseHeld_KeepsClient(held, id) ==
  IF held # "None"
  THEN [client |-> held, calls |-> <<Call("close", id, 0, "ok", {})>>]
  ELSE [client |-> held, calls |-> <<>>]

\* if self._client: self._client.close(); self._client = None
CloseHeld(held, id) ==
  IF held # "None"
  THEN [client |-> "None", calls |-> <<Call("close", id, 0, "ok", {})>>]
  ELSE [client |-> held, calls |-> <<>>]

\* Container.get_eboekhouden_client(), called by itself; the last entry it
\* logs is what the caller gets: the client (db is its number) or the error
get_eboekhouden_client ==
  /\ pc = "idle"
  /\ MethodCalls < MaxCalls
  /\ IF client = "None"
     THEN \E r \in {"true", "false", "raise"} :
            /\ client' = "client"
            /\ logged_in' = (r = "true")
            /\ log' = log \o
                 << Call("create", NewId, 0, "ok", {}),
                    Call("login", NewId, 0, r, {}),
                    IF r = "true"
                    THEN Call("get_eboekhouden_client", NewId, 0, "ok", {})
                    ELSE Call("get_eboekhouden_client", 0, 0, "raise", {}) >>
     ELSE /\ log' = Append(log, Call("get_eboekhouden_client", HeldId, 0, "ok", {}))
          /\ UNCHANGED <<client, logged_in>>
  /\ UNCHANGED <<db_events, eb_events, dry_run, pc, i, k, events_to_add, stats,
                 final_eb_events, err, history, compare_vars, connection_vars>>

\* the property Container.client
client_property ==
  /\ pc = "idle"
  /\ MethodCalls < MaxCalls
  /\ IF client = "None"
     THEN /\ client' = "client"
          /\ logged_in' = FALSE
          /\ log' = log \o << Call("create", NewId, 0, "ok", {}),
                              Call("client", NewId, 0, "ok", {}) >>
     ELSE /\ log' = Append(log, Call("client", HeldId, 0, "ok", {}))
          /\ UNCHANGED <<client, logged_in>>
  /\ UNCHANGED <<db_events, eb_events, dry_run, pc, i, k, events_to_add, stats,
                 final_eb_events, err, history, compare_vars, connection_vars>>

\* Container.cleanup()
cleanup ==
  /\ pc = "idle"
  /\ MethodCalls < MaxCalls
  /\ LET after == CloseHeld(client, HeldId)
     IN  /\ client' = after.client
         /\ logged_in' = (after.client # "None" /\ logged_in)
         /\ log' = log \o after.calls \o <<Call("cleanup", 0, 0, "ok", {})>>
  /\ UNCHANGED <<db_events, eb_events, dry_run, pc, i, k, events_to_add, stats,
                 final_eb_events, err, history, compare_vars, connection_vars>>

NextContainer ==
  \/ get_eboekhouden_client
  \/ client_property
  \/ cleanup

\* a fresh container; the two lists play no part
InitContainer ==
  /\ Init
  /\ db_events = <<>>
  /\ eb_events = <<>>
  /\ dry_run = TRUE

SpecContainer == InitContainer /\ [][NextContainer]_vars

\* ------------------------------------------------------ main() of main.py
\* main calls load_json_schema, get_events and validate_events by the names
\* it imports and branches on what they hand back; db_events is the batch
\* that get_events returns.  pc is "exit_0" or "exit_1" once main returned.

\* where main goes after validate_events(events, schema): the  if  has no
\* else, so a false answer falls through to  return 0
AfterValidate(r) ==
  CASE r = "true" -> "save"
    [] r = "false" -> "exit_0"
    [] r = "raise" -> "exit_1"

\* schema = load_json_schema('schemas/events.schema.json')
load_json_schema ==
  /\ pc = "idle"
  /\ \E r \in {"ok", "raise"} :
       /\ log' = Append(log, Call("load_json_schema", 0, 0, r, {}))
       /\ pc' = IF r = "ok" THEN "get_events" ELSE "exit_1"
  /\ UNCHANGED <<db_events, eb_events, dry_run, client, logged_in, i, k,
                 events_to_add, stats, final_eb_events, err, history, compare_vars, connection_vars>>

\* events = get_events(target_year)
get_events ==
  /\ pc = "get_events"
  /\ \E r \in {"ok", "raise"} :
       /\ log' = Append(log, Call("get_events", 0, 0, r, {}))
       /\ pc' = IF r = "ok" THEN "validate" ELSE "exit_1"
  /\ UNCHANGED <<db_events, eb_events, dry_run, client, logged_in, i, k,
                 events_to_add, stats, final_eb_events, err, history, compare_vars, connection_vars>>

\* if validate_events(events, schema):
validate_events ==
  /\ pc = "validate"
  /\ \E r \in {"true", "false", "raise"} :
       /\ log' = Append(log, Call("validate_events", Len(db_events), 0, r, {}))
       /\ pc' = AfterValidate(r)
  /\ UNCHANGED <<db_events, eb_events, dry_run, client, logged_in, i, k,
                 events_to_add, stats, final_eb_events, err, history, compare_vars, connection_vars>>

\* output_path = save_events(events, start_time)
save_events ==
  /\ pc = "save"
  /\ \E r \in {"ok", "raise"} :
       /\ log' = Append(log, Call("save_events", Len(db_events), 0, r, {}))
       /\ pc' = IF r = "ok" THEN "login" ELSE "exit_1"
  /\ UNCHANGED <<db_events, eb_events, dry_run, client, logged_in, i, k,
                 events_to_add, stats, final_eb_events, err, history, compare_vars, connection_vars>>

\* client = login_to_eboekhouden() and the  if client:  that follows; the
\* last entry logged is what login_to_eboekhouden returned
login_to_eboekhouden ==
  /\ pc = "login"
  /\ \/ /\ log' = Append(log, Call("login_to_eboekhouden", 0, 0, "None", {}))
        /\ pc' = "exit_1"
        /\ UNCHANGED <<client, logged_in>>
     \/ \E r \in {"true", "false", "raise"} :
        /\ log' = log \o
             << Call("create", NewId, 0, "ok", {}),
                Call("login", NewId, 0, r, {}),
                IF r = "true"
                THEN Call("login_to_eboekhouden", NewId, 0, "client", {})
                ELSE Call("login_to_eboekhouden", 0, 0, "None", {}) >>
        /\ client' = IF r = "true" THEN "client" ELSE "None"
        /\ logged_in' = (r = "true")
        /\ pc' = IF r = "true" THEN "download" ELSE "exit_1"
  /\ UNCHANGED <<db_events, eb_events, dry_run, i, k, events_to_add, stats,
                 final_eb_events, err, history, compare_vars, connection_vars>>

\* xls_path, events = download_hours_xls(client, target_year): the helper of
\* main.py catches every error and returns (None, None)
download_hours_xls ==
  /\ pc = "download"
  /\ \E r \in {"ok", "None"} :
       log' = Append(log, Call("download_hours_xls", HeldId, 0, r, {}))
  /\ pc' = "finally"
  /\ UNCHANGED <<db_events, eb_events, dry_run, client, logged_in, i, k,
                 events_to_add, stats, final_eb_events, err, history, compare_vars, connection_vars>>

\* finally: cleanup_temp_files(); client.close()  and then  return 0
main_finally ==
  /\ pc = "finally"
  /\ log' = Append(log, Call("close", HeldId, 0, "ok", {}))
  /\ client' = "None"
  /\ logged_in' = FALSE
  /\ pc' = "exit_0"
  /\ UNCHANGED <<db_events, eb_events, dry_run, i, k, events_to_add, stats,
                 final_eb_events, err, history, compare_vars, connection_vars>>

NextMain ==
  \/ load_json_schema
  \/ get_events
  \/ validate_events
  \/ save_events
  \/ login_to_eboekhouden
  \/ download_hours_xls
  \/ main_finally

InitMain ==
  /\ Init
  /\ eb_events = <<>>
  /\ dry_run = TRUE

SpecMain == InitMain /\ [][NextMain]_vars

\* ------------------------------------ compare_events of eboekhouden/events.py
\* hours are counted in hundredths, dates and timestamps in hours; has_event_id
\* is  'event_id' in eb_event
CompareDb(id, p, h, d, m) ==
  [event_id |-> id, project |-> p, activity |-> "Testing", hours |-> h,
   start_date |-> d, last_modified |-> m]

CompareRemote(n, has, id, p, h, d, m) ==
  [id |-> n, has_event_id |-> has, event_id |-> id, project |-> p,
   activity |-> "Testing", hours |-> h, date |-> d, last_modified |-> m]

CompareDbEvents ==
  { CompareDb(<<"a">>, "Project X", 800, 0, 2),
    CompareDb(<<"a">>, "Project X", 800, 0, 1),
    CompareDb(<<"b">>, "Project X", 801, 24, 1) }

\* remote events without an event_id and with one, with content equal to,
\* close to and different from the database events'; two remote events can
\* have the same id
CompareRemoteEvents ==
  UNION { { CompareRemote(n, FALSE, <<>>, "Project X", 800, 0, 1),
            CompareRemote(n, TRUE, <<"a">>, "Project X", 800, 0, 1),
            CompareRemote(n, TRUE, <<"a">>, "Project Y", 800, 0, 2),
            CompareRemote(n, TRUE, <<"b">>, "Project X", 800, 0, 1),
            CompareRemote(n, FALSE, <<>>, "Project X", 802, 25, 1) } : n \in 1..2 }

Abs(x) == IF x < 0 THEN -x ELSE x

\* events_match(db_event, eb_event): 0.01 hour is one hundredth, 86400
\* seconds are 24 hours
events_match(db_event, eb_event) ==
  /\ db_event.project = eb_event.project
  /\ db_event.activity = eb_event.activity
  /\ ~(Abs(db_event.hours - eb_event.hours) > 1)
  /\ ~(Abs(db_event.start_date - eb_event.date) > 24)

\* variant: an event that is not older needs an update
needs_update_NotOlder(db_event, eb_event) ==
  db_event.last_modified >= eb_event.last_modified

needs_update(db_event, eb_event) ==
  db_event.last_modified > eb_event.last_modified

\* the event_id test of the inner loop
IdMatch(db_event, eb_event) ==
  eb_event.has_event_id /\ eb_event.event_id = db_event.event_id

\* variant: processed remote events are not skipped
Candidates_NoSkip(db_event, processed) ==
  { j \in 1..Len(eb_events) :
       IdMatch(db_event, eb_events[j]) \/ events_match(db_event, eb_events[j]) }

\* the remote events at which the inner loop can stop for db_event: not yet
\* processed and matching by event_id or, failing that, by content
Candidates(db_event, processed) ==
  { j \in 1..Len(eb_events) :
       /\ eb_events[j].id \notin processed
       /\ (IdMatch(db_event, eb_events[j]) \/ events_match(db_event, eb_events[j])) }

\* the remote event the inner loop stops at: the first candidate in list
\* order, 0 when the loop runs to its end
FirstCandidate(db_event, processed) ==
  LET c == Candidates(db_event, processed)
  IN  IF c = {} THEN 0 ELSE CHOOSE j \in c : \A h \in c : j <= h

\* entry of compare_events
CompareStart ==
  /\ pc = "idle"
  /\ pc' = IF Len(db_events) > 0 THEN "first_pass" ELSE "second_pass"
  /\ i' = 1
  /\ events_to_add' = <<>>
  /\ events_to_update' = <<>>
  /\ orphaned_events' = <<>>
  /\ processed_eb_events' = {}
  /\ UNCHANGED <<db_events, eb_events, dry_run, client, logged_in, k, stats,
                 final_eb_events, err, log, history, connection_vars>>

\* one iteration of  for db_event in db_events; the log keeps the pair and
\* the branch that made it
CompareDbEvent ==
  /\ pc = "first_pass"
  /\ i <= Len(db_events)
  /\ LET db_event == db_events[i]
         j == FirstCandidate(db_event, processed_eb_events)
     IN  IF j = 0
         THEN /\ events_to_add' = Append(events_to_add, i)
              /\ UNCHANGED <<events_to_update, processed_eb_events, log>>
         ELSE /\ processed_eb_events' = processed_eb_events \cup {eb_events[j].id}
              /\ IF IdMatch(db_event, eb_events[j])
                 THEN /\ log' = Append(log, Call("pair", i, j, "event_id", {}))
                      /\ events_to_update' =
                           IF needs_update(db_event, eb_events[j])
                           THEN Append(events_to_update, <<i, j>>)
                           ELSE events_to_update
                 ELSE /\ log' = Append(log, Call("pair", i, j, "content", {}))
                      /\ UNCHANGED events_to_update
              /\ UNCHANGED events_to_add
  /\ i' = i + 1
  /\ pc' = IF i + 1 <= Len(db_events) THEN "first_pass" ELSE "second_pass"
  /\ UNCHANGED <<db_events, eb_events, dry_run, client, logged_in, k, stats,
                 final_eb_events, err, history, orphaned_events,
                 connection_vars>>

\* the second pass and the return
CompareOrphans ==
  /\ pc = "second_pass"
  /\ orphaned_events' =
       SelectSeq([ j \in 1..Len(eb_events) |-> j ],
                 LAMBDA j : eb_events[j].id \notin processed_eb_events)
  /\ pc' = "compared"
  /\ UNCHANGED <<db_events, eb_events, dry_run, client, logged_in, i, k,
                 events_to_add, stats, final_eb_events, err, log, history,
                 events_to_update, processed_eb_events, connection_vars>>

NextCompare ==
  \/ CompareStart
  \/ CompareDbEvent
  \/ CompareOrphans

InitCompare ==
  /\ db_events \in SeqsUpTo(CompareDbEvents, MaxDb)
  /\ eb_events \in SeqsUpTo(CompareRemoteEvents, MaxRemote)
  /\ dry_run = TRUE
  /\ client = "None"
  /\ logged_in = FALSE
  /\ pc = "idle"
  /\ i = 0
  /\ k = 0
  /\ events_to_add = <<>>
  /\ stats = ZeroStats
  /\ final_eb_events = <<>>
  /\ err = "none"
  /\ log = <<>>
  /\ history = <<>>
  /\ events_to_update = <<>>
  /\ orphaned_events = <<>>
  /\ processed_eb_events = {}
  /\ max_retries = 0
  /\ retry_delay = 0
  /\ retry_count = 0
  /\ last_error = 0

SpecCompare == InitCompare /\ [][NextCompare]_vars

\* ------------------------------------------ get_db_connection of get_events.py
MaxRetries == 5

\* the error an attempt raised and the connection it returned are numbered
\* by the attempt
Attempts == SelectSeq(log, LAMBDA c : c.op = "connect")

\* entry of get_db_connection(max_retries, retry_delay)
ConnectionStart ==
  /\ pc = "idle"
  /\ retry_count' = 0
  /\ last_error' = 0
  /\ pc' = "while"
  /\ UNCHANGED <<db_events, eb_events, dry_run, client, logged_in, i, k,
                 events_to_add, stats, final_eb_events, err, log, history,
                 compare_vars, max_retries, retry_delay>>

\* the except clause once retry_count was incremented to count: sleep and go
\* round again, or raise last_error
AfterFailure(count, attempt) ==
  IF count < max_retries
  THEN [pc |-> "while",
        calls |-> <<Call("sleep", retry_delay, 0, "ok", {})>>]
  ELSE [pc |-> "returned",
        calls |-> <<Call("get_db_connection", attempt, 0, "raise", {})>>]

\* one iteration of  while retry_count < max_retries
ConnectAttempt ==
  /\ pc = "while"
  /\ retry_count < max_retries
  /\ LET attempt == Len(Attempts) + 1
     IN  \/ /\ log' = log \o << Call("connect", attempt, 0, "ok", {}),
                                Call("get_db_connection", attempt, 0, "return", {}) >>
            /\ pc' = "returned"
            /\ UNCHANGED <<retry_count, last_error>>
         \/ /\ last_error' = attempt
            /\ retry_count' = retry_count + 1
            /\ log' = log \o <<Call("connect", attempt, 0, "raise", {})>>
                          \o AfterFailure(retry_count + 1, attempt).calls
            /\ pc' = AfterFailure(retry_count + 1, attempt).pc
  /\ UNCHANGED <<db_events, eb_events, dry_run, client, logged_in, i, k,
                 events_to_add, stats, final_eb_events, err, history,
                 compare_vars, max_retries, retry_delay>>

\* the loop test fails: the function body ends and None is returned
ConnectionLoopEnd ==
  /\ pc = "while"
  /\ ~(retry_count < max_retries)
  /\ log' = Append(log, Call("get_db_connection", 0, 0, "None", {}))
  /\ pc' = "returned"
  /\ UNCHANGED <<db_events, eb_events, dry_run, client, logged_in, i, k,
                 events_to_add, stats, final_eb_events, err, history,
                 compare_vars, connection_vars>>

NextConnection ==
  \/ ConnectionStart
  \/ ConnectAttempt
  \/ ConnectionLoopEnd

InitConnection ==
  /\ max_retries \in 0..MaxRetries
  /\ retry_delay \in {0, 5, 30}
  /\ retry_count = 0
  /\ last_error = 0
  /\ db_events = <<>>
  /\ eb_events = <<>>
  /\ dry_run = TRUE
  /\ client = "None"
  /\ logged_in = FALSE
  /\ pc = "idle"
  /\ i = 0
  /\ k = 0
  /\ events_to_add = <<>>
  /\ stats = ZeroStats
  /\ final_eb_events = <<>>
  /\ err = "none"
  /\ log = <<>>
  /\ history = <<>>
  /\ events_to_update = <<>>
  /\ orphaned_events = <<>>
  /\ processed_eb_events = {}

SpecConnection == InitConnection /\ [][NextConnection]_vars

\* -------------------------------------------------- ensure_client of tasks.py
\* the number of calls of ensure_client in a run
MaxTaskCalls == 5

TaskCalls == Len(SelectSeq(log, LAMBDA c : c.op = "ensure_client"))

\* what follows  _client = EBoekhoudenClient()  for client number id when
\* login answered r: a false answer closes the client, resets the global and
\* raises; an exception of login leaves ensure_client at once
AfterLogin(r, id) ==
  CASE r = "true" ->
         [client |-> "client",
          calls |-> <<Call("ensure_client", id, 0, "ok", {})>>]
    [] r = "false" ->
         [client |-> "None",
          calls |-> << Call("close", id, 0, "ok", {}),
                       Call("ensure_client", 0, 0, "raise", {}) >>]
    [] r = "raise" ->
         [client |-> "client",
          calls |-> <<Call("ensure_client", 0, 0, "raise", {})>>]

\* ensure_client(), called by a task; the last entry it logs is what the task
\* gets: the client (db is its number) or the error
ensure_client ==
  /\ pc = "idle"
  /\ TaskCalls < MaxTaskCalls
  /\ IF client = "None"
     THEN \/ /\ log' = log \o << Call("get_credentials", 0, 0, "raise", {}),
                                 Call("ensure_client", 0, 0, "raise", {}) >>
             /\ UNCHANGED <<client, logged_in>>
          \/ \E r \in {"true", "false", "raise"} :
               LET after == AfterLogin(r, NewId)
               IN  /\ client' = after.client
                   /\ logged_in' = (r = "true")
                   /\ log' = log \o << Call("get_credentials", 0, 0, "ok", {}),
                                       Call("create", NewId, 0, "ok", {}),
                                       Call("login", NewId, 0, r, {}) >>
                                 \o after.calls
     ELSE /\ log' = Append(log, Call("ensure_client", HeldId, 0, "ok", {}))
          /\ UNCHANGED <<client, logged_in>>
  /\ UNCHANGED <<db_events, eb_events, dry_run, pc, i, k, events_to_add, stats,
                 final_eb_events, err, history, compare_vars, connection_vars>>

NextTasks ==
  \/ ensure_client

\* the module as imported: _client = None
InitTasks ==
  /\ Init
  /\ db_events = <<>>
  /\ eb_events = <<>>
  /\ dry_run = TRUE

SpecTasks == InitTasks /\ [][NextTasks]_vars

TypeOK ==
  /\ pc \in {"idle", "get_client", "classify", "apply", "refetch", "orphans",
             "except", "done"}
  /\ i \in 0..(Len(db_events) + 1)
  /\ k \in 0..Len(events_to_add)
  /\ client \in {"None", "client"}
  /\ logged_in \in BOOLEAN

\* ------------------------------------------------------------- properties
Keys ==
  {"would_add", "added", "would_update", "orphaned_events", "conflict_events",
   "base_data_conflicts", "verified_adds"}

Returned == pc = "done"
NoError == err = "none"

\* the calls of one collaborator, in call order
CallsOf(op) == SelectSeq(log, LAMBDA c : c.op = op)

HasMarkerIn(event_id, remote) ==
  \E j \in 1..Len(remote) : Contains(remote[j].description, Marker(event_id))

\* database events that carry a non-empty event_id found in no remote
\* description
Additions ==
  { n \in 1..Len(db_events) :
      /\ db_events[n].has_id
      /\ Len(db_events[n].event_id) > 0
      /\ ~HasMarkerIn(db_events[n].event_id, eb_events) }

\* C1: in a run that raises no error, would_add is the number of database
\* events with a non-empty event_id whose marker occurs in no remote
\* description; each of them is an addition candidate exactly once.
C1_WouldAdd ==
  (Returned /\ NoError) =>
     /\ stats.would_add = Cardinality(Additions)
     /\ Len(events_to_add) = Cardinality(Additions)
     /\ { events_to_add[n] : n \in 1..Len(events_to_add) } = Additions

C1_Witness ==
  /\ Returned /\ NoError
  /\ Len(db_events) = 2
  /\ stats.would_add = 1
  /\ \E n \in 1..2 : db_events[n].has_id /\ db_events[n].event_id = <<>>

\* remote events whose description lacks "[event_id:"
Markerless ==
  { j \in 1..Len(eb_events) :
      \A n \in 1..Len(eb_events[j].description) : eb_events[j].description[n] # P }

ClassificationError == err \in {"events_differ", "get_event_differences"}

\* C2: when classification of a database event raises, the returned record
\* keeps orphaned_events at the number of remote events without "[event_id:"
\* and has every other counter at 0.
C2_OrphansKeptOnError ==
  (Returned /\ ClassificationError) =>
     /\ stats.orphaned_events = Cardinality(Markerless)
     /\ \A key \in Keys \ {"orphaned_events"} : stats[key] = 0

\* a step in which _handle_event_update found a matched pair to differ
PairStep ==
  /\ Len(log') = Len(log) + 2
  /\ log'[Len(log) + 1].op = "events_differ"
PairDone == PairStep /\ log'[Len(log')].res = "ok"
PairRemote == eb_events[log'[Len(log')].eb]
PairDiff == log'[Len(log')].diff

\* C3: a differing matched pair with an invoiced remote event adds exactly 1
\* to conflict_events and nothing to would_update; a differing pair with a
\* remote event that is not invoiced adds 1 to would_update and nothing to
\* conflict_events.
C3_ConflictPrecedence ==
  [][ /\ (PairStep /\ PairRemote.is_invoiced) =>
            /\ stats'.conflict_events = stats.conflict_events + 1
            /\ stats'.would_update = stats.would_update
      /\ (PairDone /\ ~PairRemote.is_invoiced) =>
            /\ stats'.would_update = stats.would_update + 1
            /\ stats'.conflict_events = stats.conflict_events
      /\ (PairStep /\ ~PairRemote.is_invoiced) =>
            stats'.conflict_events = stats.conflict_events ]_vars

C3_Witness ==
  /\ Returned /\ NoError
  /\ stats.conflict_events = 1
  /\ stats.would_update = 1
  /\ \E c \in 1..Len(log) : log[c].op = "events_differ" /\ eb_events[log[c].eb].is_invoiced

BaseFields == {"project", "activity"}

C5_BaseDataConflicts ==
  [][ (PairDone /\ ~PairRemote.is_invoiced) =>
         /\ stats'.would_update = stats.would_update + 1
         /\ stats'.base_data_conflicts =
              stats.base_data_conflicts +
              Cardinality({ f \in PairDiff \cap BaseFields : PairRemote[f] # "None" }) ]_vars

C5_Witness ==
  /\ Returned /\ NoError
  /\ Len(db_events) = 1
  /\ \E c \in 1..Len(log) :
       /\ log[c].op = "get_event_differences"
       /\ log[c].diff = {"project", "activity"}
       /\ ~eb_events[log[c].eb].is_invoiced
       /\ eb_events[log[c].eb].project = "None"
       /\ eb_events[log[c].eb].activity # "None"
  /\ stats.would_update = 1
  /\ stats.base_data_conflicts = 1

\* C6: in a run that raises no error, orphaned_events is the number of remote
\* events whose description lacks "[event_id:", in dry-run and in apply mode.
C6_Orphans ==
  (Returned /\ NoError) => stats.orphaned_events = Cardinality(Markerless)

C6_Witness ==
  /\ Returned /\ NoError
  /\ ~dry_run
  /\ Len(CallsOf("add_hours_direct")) > 0
  /\ Len(eb_events) = 2
  /\ stats.orphaned_events = 1

\* C7: in dry-run mode add_hours_direct is never called and the remote list
\* is never fetched again; the returned added and verified_adds are 0.
C7_DryRunCallsNothing ==
  dry_run =>
     /\ \A c \in 1..Len(log) :
          log[c].op \notin {"add_hours_direct", "download_hours_xls"}
     /\ Returned => (stats.added = 0 /\ stats.verified_adds = 0)

C7_Witness ==
  /\ Returned /\ NoError
  /\ dry_run
  /\ stats.would_add = 2

Adds == CallsOf("add_hours_direct")

Fetches == CallsOf("download_hours_xls")

C10_AlwaysReturnsStats ==
  /\ pc \in {"idle", "get_client", "classify", "apply", "refetch", "orphans",
             "except", "done"}
  /\ ~Returned => ENABLED Next
  /\ Returned =>
       /\ DOMAIN stats = Keys
       /\ \A key \in Keys : stats[key] \in Nat

C10_Witness ==
  /\ Returned
  /\ err = "login"
  /\ log[1].res = "false"

\* the second of two calls has returned
SecondReturned == Returned /\ Len(history) = 1

\* every database event has an id whose marker is in a remote event that the
\* difference check finds identical to it
AllMatchIdentical ==
  /\ \A n \in 1..Len(db_events) :
       /\ ~MissingEventId(db_events[n])
       /\ HasMarkerIn(db_events[n].event_id, eb_events)
  /\ \A c \in 1..Len(log) : log[c].op = "events_differ" => log[c].res = "false"

\* C11: two dry-run calls in a row on the same lists return the same
\* statistics, and when every database event is matched by a field-identical
\* remote event would_add, would_update and conflict_events are 0.
C11_Idempotent ==
  /\ (SecondReturned /\ dry_run /\ history[1].dry_run) => stats = history[1].stats
  /\ (Returned /\ dry_run /\ AllMatchIdentical) =>
        /\ stats.would_add = 0
        /\ stats.would_update = 0
        /\ stats.conflict_events = 0

\* the same statement for a first call whose login succeeded
C11_IdempotentLoggedIn ==
  (SecondReturned /\ dry_run /\ history[1].dry_run /\ history[1].err # "login")
     => stats = history[1].stats

Differs == CallsOf("events_differ")

\* C12: a remote event that was matched to one database event is not matched
\* to a database event with another id in the same run, also when its
\* description embeds the markers of both.
C12_RemoteClaimedOnce ==
  \A c, d \in 1..Len(Differs) :
     Differs[c].eb = Differs[d].eb =>
        db_events[Differs[c].db].event_id = db_events[Differs[d].db].event_id

\* the phase a collaborator call belongs to
PhaseOf(op) ==
  CASE op = "login" -> 0
    [] op \in {"events_differ", "get_event_differences"} -> 1
    [] op = "add_hours_direct" -> 2
    [] op = "download_hours_xls" -> 3

AllClassified == i > Len(db_events)

\* C13: the phases of a run are strictly ordered: every database event is
\* classified before the first add_hours_direct call, no classification call
\* follows an apply call, the remote list is fetched again only after every
\* apply call has returned, and an error-free run returns only after that.
C13_PhaseOrder ==
  /\ \A c \in 1..(Len(log) - 1) : PhaseOf(log[c].op) <= PhaseOf(log[c + 1].op)
  /\ (pc = "apply" \/ Adds # <<>>) => AllClassified
  /\ (pc = "refetch" \/ Fetches # <<>>) =>
        /\ Len(Adds) = Len(events_to_add)
        /\ \A c \in 1..Len(Adds) : Adds[c].res # "raise"
  /\ (Returned /\ NoError) =>
        /\ AllClassified
        /\ (~dry_run /\ events_to_add # <<>>) => Len(Fetches) = 1

C13_Witness ==
  /\ Returned /\ NoError
  /\ Len(Differs) >= 1
  /\ Len(Adds) >= 1
  /\ Len(Fetches) = 1

Gets == { c \in 1..Len(log) : log[c].op = "get_eboekhouden_client" }

\* C14: a client that get_eboekhouden_client returns has completed a
\* successful login, whatever calls of get_eboekhouden_client, client and
\* cleanup came before.
C14_ReturnedClientLoggedIn ==
  \A c \in Gets :
     log[c].res = "ok" =>
        \E b \in 1..(c - 1) :
           /\ log[b].op = "login"
           /\ log[b].db = log[c].db
           /\ log[b].res = "true"

LoginFailed == err = "login"

\* C15 as stated: a login failure aborts the run before any database event is
\* classified and is not converted into a statistics record that
\* synchronize_events returns.
C15_LoginFailurePropagates ==
  LoginFailed => (Differs = <<>> /\ events_to_add = <<>> /\ ~Returned)

\* C15: a login failure aborts the run before any database event is
\* classified: no collaborator is called after the failed login and no
\* candidate is collected; the error is caught inside synchronize_events,
\* which returns the all-zero statistics record to the caller.
C15_LoginFailureReturnsZeros ==
  LoginFailed =>
     /\ log # <<>>
     /\ log[Len(log)].op = "login"
     /\ log[Len(log)].res # "true"
     /\ i <= 1
     /\ events_to_add = <<>>
     /\ pc \in {"except", "done"}
     /\ Returned => stats = ZeroStats

C15_Witness ==
  /\ LoginFailed
  /\ Returned
  /\ Len(db_events) >= 1
  /\ Additions # {}

\* the collaborator calls that change nothing at the remote side
ReadingOps ==
  {"login", "events_differ", "get_event_differences", "download_hours_xls"}

Advisory == {"would_add", "would_update", "conflict_events", "base_data_conflicts"}

\* the differing pairs of this call whose remote event is not invoiced
OpenDifferences ==
  { c \in 1..Len(log) :
      /\ log[c].op = "get_event_differences"
      /\ log[c].res = "ok"
      /\ ~eb_events[log[c].eb].is_invoiced }

\* C16: updates are advisory: the only call that changes the remote side is
\* add_hours_direct, made for addition candidates only; in apply mode a
\* non-invoiced differing pair is counted in would_update; and when no
\* collaborator fails, would_add, would_update, conflict_events and
\* base_data_conflicts of a call with dry_run=false equal those of the call
\* with dry_run=true on the same lists.
C16_UpdatesAdvisory ==
  /\ \A c \in 1..Len(log) :
        \/ log[c].op \in ReadingOps
        \/ (log[c].op = "add_hours_direct" /\ log[c].db \in Additions)
  /\ (Returned /\ NoError /\ ~dry_run) =>
        stats.would_update = Cardinality(OpenDifferences)
  /\ (SecondReturned /\ NoError /\ history[1].err = "none"
        /\ dry_run # history[1].dry_run) =>
        \A key \in Advisory : stats[key] = history[1].stats[key]

C16_Witness ==
  /\ SecondReturned /\ NoError /\ history[1].err = "none"
  /\ history[1].dry_run /\ ~dry_run
  /\ stats.would_update >= 1
  /\ stats.would_add >= 1
  /\ Len(Adds) >= 1

Logins == CallsOf("login")

\* a collaborator call that ended in an error
Failed(call) ==
  call.res = "raise" \/ (call.op = "login" /\ call.res = "false")

\* C17: nothing is retried within one call of synchronize_events: login is
\* attempted at most once, add_hours_direct at most once per candidate, the
\* re-fetch at most once, and a collaborator call that failed is the last
\* collaborator call of the run.
C17_NoRetry ==
  /\ Len(Logins) <= 1
  /\ \A c, d \in 1..Len(Adds) : Adds[c].db = Adds[d].db => c = d
  /\ Len(Fetches) <= 1
  /\ \A c \in 1..Len(log) : Failed(log[c]) => c = Len(log)

C17_Witness ==
  /\ Returned
  /\ err = "add_hours_direct"
  /\ Len(events_to_add) >= 2
  /\ Len(Adds) = 1
  /\ Len(Logins) = 1

\* a remote event with a marker in the description that is the marker of no
\* database event
IsDangling(j) ==
  /\ Contains(eb_events[j].description, <<P>>)
  /\ \A n \in 1..Len(db_events) :
        MissingEventId(db_events[n])
        \/ ~Contains(eb_events[j].description, Marker(db_events[n].event_id))

\* a database event whose marker is in no remote event that is not dangling
UnmatchedInKept(n) ==
  /\ ~MissingEventId(db_events[n])
  /\ \A j \in 1..Len(eb_events) :
        IsDangling(j)
        \/ ~Contains(eb_events[j].description, Marker(db_events[n].event_id))

\* C18: a remote event with a dangling marker changes no counter: it is never
\* handed to events_differ or get_event_differences, and would_add,
\* orphaned_events, would_update and conflict_events of an error-free run are
\* what the remaining remote events alone give.
C18_DanglingIgnored ==
  /\ \A c \in 1..Len(log) : log[c].eb # 0 => ~IsDangling(log[c].eb)
  /\ (Returned /\ NoError) =>
        /\ stats.would_add = Count(Len(db_events), UnmatchedInKept)
        /\ stats.orphaned_events =
             Count(Len(eb_events), LAMBDA j :
                     ~IsDangling(j) /\ ~Contains(eb_events[j].description, <<P>>))
        /\ stats.would_update = Cardinality(OpenDifferences)
        /\ stats.conflict_events =
             Count(Len(log), LAMBDA c :
                     /\ log[c].op = "events_differ"
                     /\ log[c].res = "true"
                     /\ ~IsDangling(log[c].eb)
                     /\ eb_events[log[c].eb].is_invoiced)

C18_Witness ==
  /\ Returned /\ NoError
  /\ \E j \in 1..Len(eb_events) : IsDangling(j)
  /\ Len(eb_events) = 2
  /\ stats.would_add = 1
  /\ stats.orphaned_events = 1

Closes == { c \in 1..Len(log) : log[c].op = "close" }
Cleanups == { c \in 1..Len(log) : log[c].op = "cleanup" }

\* the clients constructed before position c of the log and not closed
\* before it
HeldBefore(c) ==
  { log[b].db : b \in { x \in 1..(c - 1) : log[x].op = "create" } } \
  { log[b].db : b \in { x \in 1..(c - 1) : log[x].op = "close" } }

\* C19: cleanup closes the held client exactly once and leaves the container
\* without a client; a cleanup when no client is held calls nothing; the
\* first get_eboekhouden_client after a cleanup constructs a new client and
\* logs in with it.
C19_Cleanup ==
  /\ \A c, d \in Closes : log[c].db = log[d].db => c = d
  /\ \A c \in Closes :
        /\ HeldBefore(c) = {log[c].db}
        /\ log[c + 1].op = "cleanup"
  /\ \A c \in Cleanups : HeldBefore(c) = {}
  /\ (log # <<>> /\ log[Len(log)].op = "cleanup") => client = "None"
  /\ \A c \in Cleanups : \A g \in Gets :
        (g > c /\ \A x \in (c + 1)..(g - 1) : log[x].op \notin MethodOps) =>
           /\ g = c + 3
           /\ log[c + 1].op = "create"
           /\ \A b \in 1..c : log[b].db # log[c + 1].db
           /\ log[c + 2].op = "login"
           /\ log[c + 2].db = log[c + 1].db

C19_Witness ==
  /\ \E c \in Closes : \E d \in Cleanups :
        /\ d > c + 1
        /\ log[d - 1].op = "cleanup"
        /\ d < Len(log)
        /\ log[d + 1].op = "create"
  /\ log[Len(log)].op = "get_eboekhouden_client"
  /\ log[Len(log)].res = "ok"
  /\ client # "None"

Exited == pc \in {"exit_0", "exit_1"}

\* the call of op returned res in this run of main
Answered(op, res) ==
  \E c \in 1..Len(log) : log[c].op = op /\ log[c].res = res

\* schema loading, retrieval, validation and login all succeeded
AllSucceeded ==
  /\ Answered("load_json_schema", "ok")
  /\ Answered("get_events", "ok")
  /\ Answered("validate_events", "true")
  /\ Answered("login_to_eboekhouden", "client")

\* one of the four failed
SomeFailed ==
  \/ Answered("load_json_schema", "raise")
  \/ Answered("get_events", "raise")
  \/ Answered("validate_events", "false")
  \/ Answered("validate_events", "raise")
  \/ Answered("login_to_eboekhouden", "None")

C20_LoginLast ==
  (pc = "login" \/ \E c \in 1..Len(log) : log[c].op \in {"login", "login_to_eboekhouden"}) =>
     /\ Answered("load_json_schema", "ok")
     /\ Answered("get_events", "ok")
     /\ Answered("validate_events", "true")

Creates == { c \in 1..Len(log) : log[c].op = "create" }

\* C21: on every exit path of main every client that main created is closed
\* exactly once before main returns.
C21_EveryClientClosed ==
  Exited =>
     \A c \in Creates :
        Cardinality({ x \in Closes : log[x].db = log[c].db /\ x > c }) = 1

\* the clients of a successful login are closed exactly once, whatever the
\* download gives
C21_LoggedInClientClosed ==
  (Exited /\ Answered("login_to_eboekhouden", "client")) =>
     \A c \in Creates :
        Cardinality({ x \in Closes : log[x].db = log[c].db /\ x > c }) = 1

\* the first run applied every candidate and raised no error
FirstRunApplied ==
  /\ Len(history) = 1
  /\ history[1].err = "none"
  /\ \A c \in 1..Len(history[1].log) :
        history[1].log[c].op = "add_hours_direct" => history[1].log[c].res = "true"

\* C22: the record that a successful add_hours_direct creates carries the
\* marker of its database event: the verification pass counts every such
\* event in verified_adds, and the next run over the resulting remote list
\* finds no addition candidate.
C22_MarkerWritten ==
  /\ \A c \in 1..Len(Adds) :
        Adds[c].res = "true" =>
           Contains(CreatedRecord(db_events[Adds[c].db]).description,
                    Marker(db_events[Adds[c].db].event_id))
  /\ (Returned /\ NoError) => stats.verified_adds = stats.added
  /\ (SecondReturned /\ NoError /\ FirstRunApplied) => stats.would_add = 0

\* the pairs compare_events has made, in the order it made them
Pairs == CallsOf("pair")

Compared == pc = "compared"

\* C23: compare_events matches by content only remote events that carry no
\* event_id: a remote event whose event_id is present and differs from the
\* database event's is never paired with that database event.
C23_ContentOnlyWithoutId ==
  \A c \in 1..Len(Pairs) :
     LET db_event == db_events[Pairs[c].db]
         eb_event == eb_events[Pairs[c].eb]
     IN  /\ Pairs[c].res = "content" => ~eb_event.has_event_id
         /\ eb_event.has_event_id => eb_event.event_id = db_event.event_id

\* the pairs made by equal event_id whose database event was modified later
NewerById ==
  { c \in 1..Len(Pairs) :
      /\ Pairs[c].res = "event_id"
      /\ eb_events[Pairs[c].eb].event_id = db_events[Pairs[c].db].event_id
      /\ db_events[Pairs[c].db].last_modified >
           eb_events[Pairs[c].eb].last_modified }

\* C24: events_to_update holds exactly the pairs that were matched by equal
\* event_id and whose database event has the strictly later last_modified,
\* each once; pairs with equal timestamps and pairs matched by content are
\* not in it.
C24_UpdateWhenNewer ==
  /\ { events_to_update[n] : n \in 1..Len(events_to_update) } =
       { <<Pairs[c].db, Pairs[c].eb>> : c \in NewerById }
  /\ Len(events_to_update) = Cardinality(NewerById)

C24_Witness ==
  /\ Compared
  /\ Len(events_to_update) = 1
  /\ \E c \in 1..Len(Pairs) :
        /\ Pairs[c].res = "event_id"
        /\ db_events[Pairs[c].db].last_modified =
             eb_events[Pairs[c].eb].last_modified
  /\ Len(Pairs) = 2

ConnectionEnded == pc = "returned"

\* what get_db_connection handed to its caller: the last entry of the log
Outcome == log[Len(log)]

Sleeps == { c \in 1..Len(log) : log[c].op = "sleep" }

\* The retry loop for any max_retries: at most max_retries attempts, the first
\* successful attempt is the last and its connection is returned, the delay is
\* slept between two attempts only, and when all max_retries attempts failed
\* the error of the last one is raised.
C25_RetryLoop ==
  /\ Len(Attempts) <= max_retries
  /\ \A n \in 1..Len(Attempts) :
        Attempts[n].res = "ok" =>
           /\ n = Len(Attempts)
           /\ ConnectionEnded
           /\ Outcome = Call("get_db_connection", n, 0, "return", {})
  /\ \A c \in Sleeps :
        /\ log[c].db = retry_delay
        /\ log[c - 1] = Call("connect", log[c - 1].db, 0, "raise", {})
        /\ c = Len(log) => pc = "while"
        /\ c < Len(log) => log[c + 1].op = "connect"
  /\ Cardinality(Sleeps) <= Len(Attempts)
  /\ (ConnectionEnded /\ Outcome.res = "raise") =>
        /\ Len(Attempts) = max_retries
        /\ \A n \in 1..Len(Attempts) : Attempts[n].res = "raise"
        /\ Outcome.db = max_retries
        /\ Cardinality(Sleeps) = max_retries - 1

\* C25: get_db_connection makes at most max_retries attempts, returns the
\* connection of the first successful attempt, sleeps between attempts only,
\* raises the last error when all attempts failed, and for every max_retries
\* ends by returning a connection or raising.
C25_ConnectionOrError ==
  /\ C25_RetryLoop
  /\ ConnectionEnded => Outcome.res \in {"return", "raise"}

\* the positions of the log where a login did not succeed
FailedLogins == { c \in 1..Len(log) : log[c].op = "login" /\ log[c].res # "true" }

\* the positions of the log where ensure_client handed a client to its caller
Ensured == { c \in 1..Len(log) : log[c].op = "ensure_client" /\ log[c].res = "ok" }

\* C26: ensure_client keeps the global client valid: a client whose login
\* failed is closed at once and is not kept in the global, so the call after
\* it creates a new client and logs in again, and every client handed to a
\* caller is one that logged in successfully, with no login after that.
C26_GlobalClientValid ==
  /\ client # "None" => logged_in
  /\ \A c \in FailedLogins :
        /\ log[c + 1] = Call("close", log[c].db, 0, "ok", {})
        /\ \A e \in Ensured : log[e].db # log[c].db
  /\ \A e \in Ensured :
        \E c \in 1..e :
           /\ log[c] = Call("login", log[e].db, 0, "true", {})
           /\ \A d \in (c + 1)..e : log[d].op = "ensure_client"

\* Where every login answered true or false the global client stays valid.
LoginAnswered == \A c \in 1..Len(log) : log[c].op = "login" => log[c].res # "raise"

ensure_client_AnsweredLogin == LoginAnswered => C26_GlobalClientValid

\* the classes of the n-th database event, read from the inputs and the calls
IsSkipped(n) == ~db_events[n].has_id \/ db_events[n].event_id = <<>>

IsAddition(n) == \E m \in 1..Len(events_to_add) : events_to_add[m] = n

Differed(n, res, invoiced) ==
  \E c \in 1..Len(log) :
     /\ log[c].op = "events_differ"
     /\ log[c].db = n
     /\ log[c].res = res
     /\ eb_events[log[c].eb].is_invoiced \in invoiced

IsUnchanged(n) == Differed(n, "false", BOOLEAN)

IsWouldUpdate(n) == Differed(n, "true", {FALSE})

IsConflict(n) == Differed(n, "true", {TRUE})

ClassesOf(n) ==
  { c \in {"skipped", "addition", "unchanged", "would_update", "conflict"} :
      \/ c = "skipped" /\ IsSkipped(n)
      \/ c = "addition" /\ IsAddition(n)
      \/ c = "unchanged" /\ IsUnchanged(n)
      \/ c = "would_update" /\ IsWouldUpdate(n)
      \/ c = "conflict" /\ IsConflict(n) }

ErrorFree == Returned /\ err = "none"

\* C27: in a run that raised no error every database event is in exactly one
\* of the classes skipped, addition, unchanged, would_update and conflict; a
\* skipped event is counted nowhere and never applied, the three counters
\* count their classes, and would_add + would_update + conflict_events is at
\* most the number of database events with an event_id.
C27_OneClassEach ==
  ErrorFree =>
    /\ \A n \in 1..Len(db_events) : Cardinality(ClassesOf(n)) = 1
    /\ \A c \in 1..Len(log) :
          log[c].op \in {"events_differ", "get_event_differences", "add_hours_direct"}
             => ~IsSkipped(log[c].db)
    /\ stats.would_add = Count(Len(db_events), IsAddition)
    /\ stats.would_update = Count(Len(db_events), IsWouldUpdate)
    /\ stats.conflict_events = Count(Len(db_events), IsConflict)
    /\ stats.would_add + stats.would_update + stats.conflict_events
          <= Len(db_events) - Count(Len(db_events), IsSkipped)

C27_Witness ==
  /\ ErrorFree
  /\ \E n \in 1..Len(db_events) : IsSkipped(n)
  /\ \E n \in 1..Len(db_events) : IsWouldUpdate(n)
  /\ stats.would_update = 1

\* the apply calls that answered true
Succeeded == SelectSeq(Adds, LAMBDA c : c.res = "true")

RefetchFailed == Returned /\ err = "download_hours_xls"

\* C28: when the verification re-fetch raises, the returned record has every
\* counter at 0, added, verified_adds and orphaned_events included, however
\* many apply calls had succeeded; the handler resets the counters for an
\* error of any phase.
C28_RefetchErrorReturnsZeros ==
  /\ RefetchFailed =>
       /\ log[Len(log)] = Call("download_hours_xls", 0, 0, "raise", {})
       /\ Len(Adds) = Len(events_to_add)
       /\ stats = ZeroStats
  /\ (Returned /\ err # "none") =>
       \A key \in Keys \ {"orphaned_events"} : stats[key] = 0

C28_Witness ==
  /\ RefetchFailed
  /\ Len(Succeeded) = 2
  /\ stats.added = 0
  /\ stats.verified_adds = 0

UniqueRemoteIds ==
  \A a, b \in 1..Len(eb_events) : a # b => eb_events[a].id # eb_events[b].id

PairedDb(n) == \E c \in 1..Len(Pairs) : Pairs[c].db = n

PairedRemote(j) == \E c \in 1..Len(Pairs) : Pairs[c].eb = j

InSeq(seq, x) == \E m \in 1..Len(seq) : seq[m] = x

\* C29: when the remote ids are unique, compare_events partitions both lists:
\* every database event is either in events_to_add or in one pair, every
\* remote event is either in orphaned_events or in one pair, so that
\* len(events_to_add) + pairs = len(db_events) and
\* len(orphaned_events) + pairs = len(eb_events).
C29_Partition ==
  (Compared /\ UniqueRemoteIds) =>
    /\ Len(events_to_add) + Len(Pairs) = Len(db_events)
    /\ Len(orphaned_events) + Len(Pairs) = Len(eb_events)
    /\ \A n \in 1..Len(db_events) : InSeq(events_to_add, n) # PairedDb(n)
    /\ \A j \in 1..Len(eb_events) : InSeq(orphaned_events, j) # PairedRemote(j)
    /\ \A c, d \in 1..Len(Pairs) :
          c # d => Pairs[c].db # Pairs[d].db /\ Pairs[c].eb # Pairs[d].eb

C29_Witness ==
  /\ Compared
  /\ UniqueRemoteIds
  /\ Len(Pairs) = 1
  /\ Len(events_to_add) = 1
  /\ Len(orphaned_events) = 1

\* the remote events that carry the event_id of the database event of the
\* c-th pair and were not processed when its turn came
UnclaimedById(c) ==
  { j \in 1..Len(eb_events) :
       /\ IdMatch(db_events[Pairs[c].db], eb_events[j])
       /\ \A d \in 1..(c - 1) : eb_events[Pairs[d].eb].id # eb_events[j].id }

\* C30: an identifier match takes precedence over a content match: a database
\* event for which an unprocessed remote event carries its event_id is paired
\* by event_id with the first such remote event, wherever it stands in the
\* remote list, and that remote event is not reported as orphaned (remote ids
\* unique).
C30_IdBeforeContent ==
  UniqueRemoteIds =>
  \A c \in 1..Len(Pairs) :
     \A j \in UnclaimedById(c) :
        (\A h \in UnclaimedById(c) : j <= h) =>
           /\ Pairs[c].res = "event_id"
           /\ Pairs[c].eb = j
           /\ ~InSeq(orphaned_events, j)

\* An identifier match is taken when no remote event before it in the list
\* matches by content.
IdWithoutEarlierContent ==
  \A c \in 1..Len(Pairs) :
     \A j \in UnclaimedById(c) :
        (\A h \in 1..(j - 1) :
            \/ \E d \in 1..(c - 1) : eb_events[Pairs[d].eb].id = eb_events[h].id
            \/ ~events_match(db_events[Pairs[c].db], eb_events[h])) =>
           Pairs[c].eb <= j /\ (Pairs[c].eb = j => Pairs[c].res = "event_id")

====
